---- MODULE Spec2Model ----
(***************************************************************************)
(* Model of package definition (github.com/caicloud/nirvana): the          *)
(* construction helpers for Parameter / Result / Descriptor values and the *)
(* two Operator implementations, operator (NewOperator) and operatorRef    *)
(* (OperatorFunc), together with the part of package reflect that          *)
(* operatorRef.Operate relies on (TypeOf, ValueOf, Zero, Value.Call).      *)
(*                                                                         *)
(* One behaviour of the model is one request to a constructor, followed,   *)
(* when the constructor returned an Operator, by any number of Operate     *)
(* calls issued by concurrent callers that share the Operator.             *)
(***************************************************************************)
EXTENDS Integers, Sequences, FiniteSets, TLC

VARIABLES req, res, calls

vars == <<req, res, calls>>

(***************************************************************************)
(* Bounds of the model.                                                    *)
(***************************************************************************)
\* longest parameter list of a candidate function handed to OperatorFunc
MaxArity == 4
\* longest result list of a candidate function handed to OperatorFunc
MaxResults == 3
\* the goroutines that share the constructed Operator
Callers == {"g1", "g2"}

(***************************************************************************)
(* Go types.  A type is named by its Go source notation; MyString, MyErr   *)
(* are types declared by the calling package (package main).               *)
(***************************************************************************)
ContextType == "context.Context"
StringType == "string"
ErrorType == "error"
EmptyInterface == "interface{}"

InterfaceTypes == {ContextType, ErrorType, EmptyInterface}
SliceTypes == {"[]int"}

IsInterface(t) == t \in InterfaceTypes

\* reflect.Type.Elem of a slice type
Elem(t) == CASE t = "[]int" -> "int"

\* reflect.Type.String: declared types are qualified by their package,
\* predeclared types are not.
TypeString(t) ==
  CASE t = "MyString" -> "main.MyString"
    [] t = "*MyErr"   -> "*main.MyErr"
    [] t = "emptyCtx" -> "context.emptyCtx"
    [] OTHER          -> t

\* method sets: which interface a dynamic type implements
Implements(t, iface) ==
  \/ iface = EmptyInterface
  \/ iface = ContextType /\ t = "emptyCtx"
  \/ iface = ErrorType /\ t = "*MyErr"

\* reflect.Type.AssignableTo, on the types of the model
AssignableTo(t, target) ==
  \/ t = target
  \/ IsInterface(target) /\ Implements(t, target)

(***************************************************************************)
(* Go values held in an interface{}: a dynamic type and a payload.  The    *)
(* nil interface holds neither.                                            *)
(***************************************************************************)
\* v is the payload: one string for a scalar, the elements for a slice
GoValue(t, v) == [t |-> t, v |-> v]
NilIface == GoValue("nil", <<>>)

IsNilIface(x) == x = NilIface

\* the zero value of a type, as an interface{} would hold it
ZeroOf(t) ==
  CASE t = "int"      -> GoValue("int", <<"0">>)
    [] t = "string"   -> GoValue("string", <<"">>)
    [] t = "MyString" -> GoValue("MyString", <<"">>)
    [] t = "[]int"    -> GoValue("[]int", <<>>)
    [] t = "*MyErr"   -> GoValue("*MyErr", <<"nil">>)
    [] OTHER          -> NilIface

Background == GoValue("emptyCtx", <<"background">>)
ErrParse == GoValue("*MyErr", <<"parse error">>)
ErrRange == GoValue("*MyErr", <<"out of range">>)

Contexts == {NilIface, Background}
Fields == {"age", "name"}
Objects == {NilIface, GoValue("int", <<"42">>), GoValue("[]int", <<"42">>)}
Errors == {NilIface, ErrParse, ErrRange}

\* the values a function may return for a result of static type t
ValuesOf(t) ==
  CASE t = "int"          -> {GoValue("int", <<"0">>), GoValue("int", <<"42">>)}
    [] t = "string"       -> {GoValue("string", <<"">>), GoValue("string", <<"abc">>)}
    [] t = EmptyInterface -> {NilIface, GoValue("int", <<"42">>)}
    [] t = ErrorType      -> Errors
    [] OTHER              -> {ZeroOf(t)}

(***************************************************************************)
(* package reflect                                                         *)
(***************************************************************************)
\* a reflect.Value: the zero Value is invalid
ReflectValue(valid, typ, val) == [valid |-> valid, typ |-> typ, val |-> val]
ZeroReflectValue == ReflectValue(FALSE, "invalid", NilIface)

\* reflect.ValueOf(i): the zero Value for a nil interface, else a Value of
\* i's dynamic type
ValueOf(i) ==
  IF IsNilIface(i) THEN ZeroReflectValue ELSE ReflectValue(TRUE, i.t, i)

\* reflect.Zero(typ): a valid Value of type typ holding typ's zero value
Zero(typ) == ReflectValue(TRUE, typ, ZeroOf(typ))

\* Value.Call(in) on a Value holding function f.  The arguments are
\* counted, then checked for the zero Value, then for assignability to the
\* parameter types; the arguments past the last fixed parameter of a variadic
\* function must each be assignable to the element type of its final
\* parameter and are gathered into one slice.  Yields whether Call panicked
\* and, if not, the arguments the function body receives.
Call(f, in) ==
  LET n == IF f.variadic THEN Len(f.params) - 1 ELSE Len(f.params)
      m == Len(in) - n
      panicked ==
        \/ Len(in) < n
        \/ ~f.variadic /\ Len(in) > n
        \/ \E i \in 1..Len(in) : ~in[i].valid
        \/ \E i \in 1..n : ~AssignableTo(in[i].typ, f.params[i])
        \/ f.variadic
             /\ \E i \in 1..m : ~AssignableTo(in[n + i].typ, Elem(f.params[n + 1]))
      fixed == [i \in 1..n |-> in[i].val]
      slice == GoValue(f.params[n + 1], [i \in 1..m |-> in[n + i].val.v[1]])
  IN [panicked |-> panicked,
      args |-> IF panicked THEN <<>>
               ELSE IF f.variadic THEN Append(fixed, slice)
               ELSE fixed]

\* Value.IsNil of a Value of interface type
IsNil(v) == IsNilIface(v.val)

\* Value.Interface
Interface(v) == v.val

(***************************************************************************)
(* Candidate arguments f of OperatorFunc(kind, f interface{}).             *)
(***************************************************************************)
GoFunc(params, results, variadic) ==
  [gokind |-> "func", params |-> params, results |-> results,
   variadic |-> variadic]
NotAFunc(k) ==
  [gokind |-> k, params |-> <<>>, results |-> <<>>, variadic |-> FALSE]

\* types tried at each parameter / result position
ParamChoices(i) ==
  CASE i = 1 -> {ContextType, "int"}
    [] i = 2 -> {StringType, "MyString"}
    [] i = 3 -> {"int", EmptyInterface, "[]int"}
    [] OTHER -> {"int"}
ResultChoices(i) ==
  CASE i = 1 -> {"int", EmptyInterface}
    [] i = 2 -> {ErrorType, "*MyErr"}
    [] OTHER -> {"int"}

ParamLists ==
  UNION {{p \in [1..n -> UNION {ParamChoices(i) : i \in 1..n}] :
            \A i \in 1..n : p[i] \in ParamChoices(i)} : n \in 0..MaxArity}
ResultLists ==
  UNION {{r \in [1..n -> UNION {ResultChoices(i) : i \in 1..n}] :
            \A i \in 1..n : r[i] \in ResultChoices(i)} : n \in 0..MaxResults}

\* a func type is variadic only when its last parameter is a slice
GoFuncs ==
  {GoFunc(p, r, v) : p \in ParamLists, r \in ResultLists, v \in {FALSE}}
  \cup {GoFunc(p, r, TRUE) :
          p \in {q \in ParamLists : Len(q) > 0 /\ q[Len(q)] \in SliceTypes},
          r \in ResultLists}

\* a function of the fixed type NewOperator takes, told apart by its name
NamedFunc(name) == [gokind |-> "func", name |-> name]
NoFunc == NotAFunc("nil")

Candidates == GoFuncs \cup {NotAFunc("nil"), NotAFunc("int")}

Kinds == {"toInt", "validate"}

(***************************************************************************)
(* Operator construction                                                   *)
(***************************************************************************)
Panicked(msg) == [status |-> "panic", msg |-> msg]
Returned(value) == [status |-> "ok", value |-> value]
Pending == [status |-> "pending"]

\* OperatorFunc as it would be without the check of the last result
OperatorFunc_NoErrorCheck(kind, f) ==
  IF f.gokind = "nil" THEN
    Panicked("nil pointer dereference")
  ELSE IF f.gokind # "func" THEN
    Panicked("Parameter f in OperatorFunc must be a function")
  ELSE IF Len(f.params) # 3 THEN
    Panicked("Function must have 3 parameters")
  ELSE IF f.params[1] # ContextType THEN
    Panicked("The first parameter of function must be context.Context")
  ELSE IF f.params[2] # StringType THEN
    Panicked("The second parameter of function must be string")
  ELSE IF Len(f.results) # 2 THEN
    Panicked("Parameter f in OperatorFunc must have two results")
  ELSE
    Returned([impl |-> "operatorRef", kind |-> kind, in |-> f.params[3],
              out |-> f.results[1], value |-> f])

\* OperatorFunc as it would be with in and out taken from the wrong places
OperatorFunc_SwapInOut(kind, f) ==
  IF f.gokind = "nil" THEN
    Panicked("nil pointer dereference")
  ELSE IF f.gokind # "func" THEN
    Panicked("Parameter f in OperatorFunc must be a function")
  ELSE IF Len(f.params) # 3 THEN
    Panicked("Function must have 3 parameters")
  ELSE IF f.params[1] # ContextType THEN
    Panicked("The first parameter of function must be context.Context")
  ELSE IF f.params[2] # StringType THEN
    Panicked("The second parameter of function must be string")
  ELSE IF Len(f.results) # 2 THEN
    Panicked("Parameter f in OperatorFunc must have two results")
  ELSE IF TypeString(f.results[2]) # "error" THEN
    Panicked("The last result of parameter f in OperatorFunc must be error")
  ELSE
    Returned([impl |-> "operatorRef", kind |-> kind, in |-> f.results[1],
              out |-> f.params[3], value |-> f])

\* OperatorFunc creates operator by function.
OperatorFunc(kind, f) ==
  IF f.gokind = "nil" THEN
    Panicked("nil pointer dereference")
  ELSE IF f.gokind # "func" THEN
    Panicked("Parameter f in OperatorFunc must be a function")
  ELSE IF Len(f.params) # 3 THEN
    Panicked("Function must have 3 parameters")
  ELSE IF f.params[1] # ContextType THEN
    Panicked("The first parameter of function must be context.Context")
  ELSE IF f.params[2] # StringType THEN
    Panicked("The second parameter of function must be string")
  ELSE IF Len(f.results) # 2 THEN
    Panicked("Parameter f in OperatorFunc must have two results")
  ELSE IF TypeString(f.results[2]) # "error" THEN
    Panicked("The last result of parameter f in OperatorFunc must be error")
  ELSE
    Returned([impl |-> "operatorRef", kind |-> kind, in |-> f.params[3],
              out |-> f.results[1], value |-> f])

\* NewOperator creates operator by function.
NewOperator(kind, in, out, f) ==
  Returned([impl |-> "operator", kind |-> kind, in |-> in, out |-> out,
            f |-> f])

\* Kind indicates operator type.
Kind(o) == o.kind
\* In returns the type of the only object parameter of operator.
In(o) == o.in
\* Out returns the type of the only object result of operator.
Out(o) == o.out

(***************************************************************************)
(* Operate.  The wrapped function is user code: Operate is modelled up to  *)
(* the point where the function is entered, and from the point where it    *)
(* returns its two results.                                                *)
(***************************************************************************)
StringValue(str) == GoValue("string", <<str>>)

\* operator.Operate as it would be if it substituted the zero value of o.in
\* for a nil object, as operatorRef.Operate does
OperatorCall_ZeroForNil(o, ctx, field, object) ==
  [self |-> o, panicked |-> FALSE, callee |-> o.f,
   args |-> <<ctx, StringValue(field),
              IF IsNilIface(object) THEN ZeroOf(o.in) ELSE object>>]

\* operator.Operate, up to the call of o.f
OperatorCall(o, ctx, field, object) ==
  [self |-> o, panicked |-> FALSE, callee |-> o.f,
   args |-> <<ctx, StringValue(field), object>>]

\* operator.Operate, from the return of o.f
OperatorReturn(o, results) ==
  [self |-> o, ret |-> <<results[1], results[2]>>]

\* operatorRef.Operate as it would be if it recorded the type of the object
\* it was last given in o.in
OperatorRefCall_StoresIn(o, ctx, field, object) ==
  LET objectValue == IF IsNilIface(object) THEN Zero(o.in)
                     ELSE ValueOf(object)
      c == Call(o.value,
                <<ValueOf(ctx), ValueOf(StringValue(field)), objectValue>>)
  IN [self |-> [o EXCEPT !.in = objectValue.typ], panicked |-> c.panicked,
      callee |-> o.value, args |-> c.args]

\* operatorRef.Operate, up to the call of the function in o.value
OperatorRefCall(o, ctx, field, object) ==
  LET objectValue == IF IsNilIface(object) THEN Zero(o.in)
                     ELSE ValueOf(object)
      c == Call(o.value,
                <<ValueOf(ctx), ValueOf(StringValue(field)), objectValue>>)
  IN [self |-> o, panicked |-> c.panicked, callee |-> o.value,
      args |-> c.args]

\* operatorRef.Operate as it would be if it returned the function's two
\* results as they are
OperatorRefReturn_KeepsValue(o, results) ==
  [self |-> o,
   ret |-> <<Interface(results[1]), Interface(results[2])>>]

\* operatorRef.Operate, from the return of the function in o.value
OperatorRefReturn(o, results) ==
  LET v == results[2]
  IN [self |-> o,
      ret |-> IF IsNil(v) THEN <<Interface(results[1]), NilIface>>
              ELSE <<NilIface, Interface(results[2])>>]

(***************************************************************************)
(* Parameter, Result and Descriptor helpers.  A struct is a record of the  *)
(* fields its literal sets; a nil slice is the empty sequence.             *)
(***************************************************************************)
MIMEAll == "*/*"

Sources == {"Path", "Query", "Header", "Form", "File", "Body", "Prefab",
            "Auto"}

\* DataErrorResults as it would be if it described both results
DataErrorResults_BothDescribed(description) ==
  << [Destination |-> "Data", Description |-> description,
      Operators |-> <<>>],
     [Destination |-> "Error", Description |-> description,
      Operators |-> <<>>] >>

\* DataErrorResults returns the most frequently-used results.
DataErrorResults(description) ==
  << [Destination |-> "Data", Description |-> description,
      Operators |-> <<>>],
     [Destination |-> "Error", Description |-> "", Operators |-> <<>>] >>

\* ParameterFor creates a simple parameter.
ParameterFor(source, name, description, operators) ==
  [Source |-> source, Name |-> name, Description |-> description,
   Operators |-> operators]

\* BodyParameterFor as it would be if it named the parameter
BodyParameterFor_Named(description, operators) ==
  ParameterFor("Body", "body", description, operators)

\* BodyParameterFor creates a body parameter
BodyParameterFor(description, operators) ==
  ParameterFor("Body", "", description, operators)

\* AutoParameterFor creates an auto parameter
AutoParameterFor(description, operators) ==
  ParameterFor("Auto", "", description, operators)

\* SimpleDescriptor creates a simple REST descriptor for handler.
SimpleDescriptor(method, path, f) ==
  [Path |-> path,
   Definitions |-> << [Method |-> method, Function |-> f,
                       Consumes |-> <<MIMEAll>>,
                       Produces |-> <<MIMEAll>>] >>]

\* SimpleRPCDescriptor as it would be if it produced JSON only
SimpleRPCDescriptor_JSON(path, f) ==
  [Path |-> path,
   Actions |-> << [Function |-> f, Consumes |-> <<MIMEAll>>,
                   Produces |-> <<"application/json">>] >>]

\* SimpleRPCDescriptor creates a simple RPC descriptor for handler.
SimpleRPCDescriptor(path, f) ==
  [Path |-> path,
   Actions |-> << [Function |-> f, Consumes |-> <<MIMEAll>>,
                   Produces |-> <<MIMEAll>>] >>]

(***************************************************************************)
(* Requests: one call of a constructor with its arguments.                 *)
(***************************************************************************)
Names == {"", "id", "limit"}
Descriptions == {"", "the user"}
OperatorLists == {<<>>, <<"toInt">>, <<"toInt", "validate">>}
Methods == {"Get", "Create"}
Paths == {"/", "/users"}
Handlers == {NamedFunc("listUsers"), NamedFunc("createUser")}
ExplicitTypes == {"int", "string"}
ExplicitFuncs == {NamedFunc("parse"), NamedFunc("check")}

OperatorRequests ==
  {[fn |-> "OperatorFunc", kind |-> k, f |-> f] :
      k \in Kinds, f \in Candidates}
  \cup {[fn |-> "NewOperator", kind |-> k, in |-> i, out |-> o, f |-> f] :
          k \in Kinds, i \in ExplicitTypes, o \in ExplicitTypes,
          f \in ExplicitFuncs}

BuilderRequests ==
  {[fn |-> "DataErrorResults", description |-> d] : d \in Descriptions}
  \cup {[fn |-> "ParameterFor", source |-> s, name |-> n, description |-> d,
          operators |-> ops] :
          s \in Sources, n \in Names, d \in Descriptions,
          ops \in OperatorLists}
  \cup {[fn |-> "BodyParameterFor", description |-> d, operators |-> ops] :
          d \in Descriptions, ops \in OperatorLists}
  \cup {[fn |-> "AutoParameterFor", description |-> d, operators |-> ops] :
          d \in Descriptions, ops \in OperatorLists}
  \cup {[fn |-> "SimpleDescriptor", method |-> m, path |-> p, f |-> f] :
          m \in Methods, p \in Paths, f \in Handlers}
  \cup {[fn |-> "SimpleRPCDescriptor", path |-> p, f |-> f] :
          p \in Paths, f \in Handlers}

Requests == OperatorRequests \cup BuilderRequests

(***************************************************************************)
(* State machine                                                           *)
(***************************************************************************)
\* one caller's Operate call: its arguments, how often and with what the
\* wrapped function was entered, what the function returned and what
\* Operate returned
Idle ==
  [pc |-> "idle", ctx |-> NilIface, field |-> "", object |-> NilIface,
   n |-> 0, callee |-> NoFunc, fargs |-> <<>>, fret |-> <<>>, ret |-> <<>>]

Init ==
  /\ req \in Requests
  /\ res = Pending
  /\ calls = [c \in Callers |-> Idle]

CallOperatorFunc ==
  /\ req.fn = "OperatorFunc" /\ res = Pending
  /\ res' = OperatorFunc(req.kind, req.f)
  /\ UNCHANGED <<req, calls>>

CallNewOperator ==
  /\ req.fn = "NewOperator" /\ res = Pending
  /\ res' = NewOperator(req.kind, req.in, req.out, req.f)
  /\ UNCHANGED <<req, calls>>

CallDataErrorResults ==
  /\ req.fn = "DataErrorResults" /\ res = Pending
  /\ res' = Returned(DataErrorResults(req.description))
  /\ UNCHANGED <<req, calls>>

CallParameterFor ==
  /\ req.fn = "ParameterFor" /\ res = Pending
  /\ res' = Returned(ParameterFor(req.source, req.name, req.description,
                                  req.operators))
  /\ UNCHANGED <<req, calls>>

CallBodyParameterFor ==
  /\ req.fn = "BodyParameterFor" /\ res = Pending
  /\ res' = Returned(BodyParameterFor(req.description, req.operators))
  /\ UNCHANGED <<req, calls>>

CallAutoParameterFor ==
  /\ req.fn = "AutoParameterFor" /\ res = Pending
  /\ res' = Returned(AutoParameterFor(req.description, req.operators))
  /\ UNCHANGED <<req, calls>>

CallSimpleDescriptor ==
  /\ req.fn = "SimpleDescriptor" /\ res = Pending
  /\ res' = Returned(SimpleDescriptor(req.method, req.path, req.f))
  /\ UNCHANGED <<req, calls>>

CallSimpleRPCDescriptor ==
  /\ req.fn = "SimpleRPCDescriptor" /\ res = Pending
  /\ res' = Returned(SimpleRPCDescriptor(req.path, req.f))
  /\ UNCHANGED <<req, calls>>

\* the request was for an Operator and the constructor returned one
HasOperator(impl) ==
  /\ req.fn \in {"OperatorFunc", "NewOperator"}
  /\ res.status = "ok"
  /\ res.value.impl = impl

Entered(c, ctx, field, object, r) ==
  [pc |-> IF r.panicked THEN "panicked" ELSE "inF",
   ctx |-> ctx, field |-> field, object |-> object,
   n |-> IF r.panicked THEN 0 ELSE 1,
   callee |-> IF r.panicked THEN NoFunc ELSE r.callee,
   fargs |-> r.args, fret |-> <<>>, ret |-> <<>>]

\* caller c calls Operate on the shared operator; the call runs until it
\* panics or enters the wrapped function
OperateCall(c, ctx, field, object) ==
  /\ HasOperator("operator")
  /\ calls[c].pc # "inF"
  /\ LET r == OperatorCall(res.value, ctx, field, object)
     IN /\ res' = Returned(r.self)
        /\ calls' = [calls EXCEPT ![c] = Entered(c, ctx, field, object, r)]
  /\ UNCHANGED req

\* the wrapped function returns (v, err) to caller c's Operate, which returns
OperateReturn(c, v, err) ==
  /\ HasOperator("operator")
  /\ calls[c].pc = "inF"
  /\ LET r == OperatorReturn(res.value, <<v, err>>)
     IN /\ res' = Returned(r.self)
        /\ calls' = [calls EXCEPT ![c].pc = "returned",
                                  ![c].fret = <<v, err>>,
                                  ![c].ret = r.ret]
  /\ UNCHANGED req

RefOperateCall(c, ctx, field, object) ==
  /\ HasOperator("operatorRef")
  /\ calls[c].pc # "inF"
  /\ LET r == OperatorRefCall(res.value, ctx, field, object)
     IN /\ res' = Returned(r.self)
        /\ calls' = [calls EXCEPT ![c] = Entered(c, ctx, field, object, r)]
  /\ UNCHANGED req

\* reflect hands the function's results back as Values of the declared
\* result types
RefOperateReturn(c, v, err) ==
  /\ HasOperator("operatorRef")
  /\ calls[c].pc = "inF"
  /\ LET o == res.value
         r == OperatorRefReturn(o, <<ReflectValue(TRUE, o.value.results[1], v),
                                    ReflectValue(TRUE, o.value.results[2], err)>>)
     IN /\ v \in ValuesOf(o.value.results[1])
        /\ res' = Returned(r.self)
        /\ calls' = [calls EXCEPT ![c].pc = "returned",
                                  ![c].fret = <<v, err>>,
                                  ![c].ret = r.ret]
  /\ UNCHANGED req

Next ==
  \/ CallOperatorFunc
  \/ CallNewOperator
  \/ CallDataErrorResults
  \/ CallParameterFor
  \/ CallBodyParameterFor
  \/ CallAutoParameterFor
  \/ CallSimpleDescriptor
  \/ CallSimpleRPCDescriptor
  \/ \E c \in Callers, ctx \in Contexts, field \in Fields, object \in Objects :
       OperateCall(c, ctx, field, object)
  \/ \E c \in Callers, v \in ValuesOf(EmptyInterface),
        err \in Errors :
       OperateReturn(c, v, err)
  \/ \E c \in Callers, ctx \in Contexts, field \in Fields, object \in Objects :
       RefOperateCall(c, ctx, field, object)
  \/ \E c \in Callers, v \in ValuesOf("int") \cup ValuesOf(EmptyInterface),
        err \in Errors :
       RefOperateReturn(c, v, err)

Spec == Init /\ [][Next]_vars

(***************************************************************************)
(* Properties                                                              *)
(***************************************************************************)
OperatorFuncDone == req.fn = "OperatorFunc" /\ res # Pending
RefOperator == HasOperator("operatorRef")
PlainOperator == HasOperator("operator")

\* the shapes OperatorFunc documents: func(context.Context, string, T) (U, error)
HasShape(f) ==
  /\ f.gokind = "func"
  /\ Len(f.params) = 3
  /\ f.params[1] = ContextType
  /\ f.params[2] = StringType
  /\ Len(f.results) = 2
  /\ f.results[2] = ErrorType

\* C1: OperatorFunc(kind, f) panics, returning no Operator, for every f that
\* is not a function, or has other than 3 parameters, or whose parameter 1 is
\* not context.Context, or whose parameter 2 is not string, or that has other
\* than 2 results, or whose result 2 is not error; so no Operate call is ever
\* made on an operator wrapping such an f.
C1_ShapeFailsAtConstruction ==
  (req.fn = "OperatorFunc" /\ ~HasShape(req.f)) =>
     /\ res.status \in {"pending", "panic"}
     /\ \A c \in Callers : calls[c] = Idle

C1_Witness ==
  /\ req.fn = "OperatorFunc" /\ res.status = "panic"
  /\ req.f.gokind = "func"
  /\ Len(req.f.params) = 3 /\ req.f.params[1] = ContextType
  /\ req.f.params[2] = StringType
  /\ Len(req.f.results) = 2 /\ req.f.results[2] = "*MyErr"

\* C2 as stated: for an Operator of either construction path, a returning
\* Operate returns (output, nil) exactly when the wrapped function's error is
\* nil and otherwise (nil, err) with the function's own err, never a non-nil
\* value together with a non-nil error.
C2_ExclusiveResultsAnyPath ==
  \A c \in Callers :
    calls[c].pc = "returned" =>
      /\ IsNilIface(calls[c].fret[2]) =>
            calls[c].ret = <<calls[c].fret[1], NilIface>>
      /\ ~IsNilIface(calls[c].fret[2]) =>
            calls[c].ret = <<NilIface, calls[c].fret[2]>>
      /\ ~(~IsNilIface(calls[c].ret[1]) /\ ~IsNilIface(calls[c].ret[2]))

\* C2 amended: for an Operator built by OperatorFunc a returning Operate
\* returns (output, nil) exactly when the wrapped function's error is nil and
\* otherwise (nil, err) with the function's own err, never both non-nil; for
\* an Operator built by NewOperator, Operate returns the wrapped function's
\* two results as they are, both non-nil when the function returned both.
C2_ExclusiveResultsOperatorFunc ==
  \A c \in Callers :
    calls[c].pc = "returned" =>
      /\ RefOperator =>
            /\ IsNilIface(calls[c].fret[2]) =>
                  calls[c].ret = <<calls[c].fret[1], NilIface>>
            /\ ~IsNilIface(calls[c].fret[2]) =>
                  calls[c].ret = <<NilIface, calls[c].fret[2]>>
            /\ ~(~IsNilIface(calls[c].ret[1]) /\ ~IsNilIface(calls[c].ret[2]))
      /\ PlainOperator => calls[c].ret = calls[c].fret

C2_Witness ==
  /\ RefOperator
  /\ \E c \in Callers :
       /\ calls[c].pc = "returned"
       /\ calls[c].fret = <<GoValue("int", <<"42">>), ErrRange>>
       /\ calls[c].ret = <<NilIface, ErrRange>>

\* C3: on an operator built by OperatorFunc, Operate(ctx, field, nil) enters
\* the wrapped function exactly once, with ctx and field as given and the
\* zero value of the type In() reports as third argument; an object of that
\* type is passed as it is.  (Stated for a non-nil ctx.)
C3_ZeroValueForNilObject ==
  \A c \in Callers :
    (RefOperator /\ calls[c].pc # "idle" /\ ~IsNilIface(calls[c].ctx)) =>
      /\ IsNilIface(calls[c].object) =>
            /\ calls[c].n = 1
            /\ calls[c].callee = res.value.value
            /\ calls[c].fargs = <<calls[c].ctx, StringValue(calls[c].field),
                                  ZeroOf(In(res.value))>>
      /\ calls[c].object.t = In(res.value) =>
            /\ calls[c].n = 1
            /\ calls[c].fargs = <<calls[c].ctx, StringValue(calls[c].field),
                                  calls[c].object>>

\* C4: for every f of shape (context.Context, string, T) -> (U, error) and
\* every kind k, OperatorFunc(k, f) returns an Operator with In() = T,
\* Out() = U and Kind() = k.
C4_InOutKindDerived ==
  (OperatorFuncDone /\ HasShape(req.f)) =>
     /\ res.status = "ok"
     /\ In(res.value) = req.f.params[3]
     /\ Out(res.value) = req.f.results[1]
     /\ Kind(res.value) = req.kind

C4_Witness ==
  /\ OperatorFuncDone /\ HasShape(req.f)
  /\ req.kind = "validate"
  /\ In(res.value) = "[]int" /\ Out(res.value) = EmptyInterface

\* C5 as stated: every Parameter with Source Body or Auto produced by
\* ParameterFor, BodyParameterFor or AutoParameterFor has an empty Name,
\* whatever name the caller passed.
C5_BodyAutoNameEmpty ==
  (/\ req.fn \in {"ParameterFor", "BodyParameterFor", "AutoParameterFor"}
   /\ res.status = "ok"
   /\ res.value.Source \in {"Body", "Auto"}) => res.value.Name = ""

\* C5 amended: BodyParameterFor and AutoParameterFor, which take no name,
\* produce a Parameter with Source Body, respectively Auto, and an empty
\* Name; ParameterFor keeps the name it is given for every Source, Body and
\* Auto included.
C5_NameByConstructor ==
  res.status = "ok" =>
    /\ req.fn = "BodyParameterFor" =>
          res.value.Source = "Body" /\ res.value.Name = ""
    /\ req.fn = "AutoParameterFor" =>
          res.value.Source = "Auto" /\ res.value.Name = ""
    /\ req.fn = "ParameterFor" =>
          res.value.Source = req.source /\ res.value.Name = req.name

C5_Witness ==
  /\ req.fn = "BodyParameterFor" /\ res.status = "ok"
  /\ res.value.Source = "Body" /\ res.value.Name = ""
  /\ res.value.Description = "the user"

\* C6: Operate writes no field of the Operator: once constructed, the
\* operator, and so what Kind(), In() and Out() report, stays as it is across
\* every step of every caller's Operate call, whatever the call returns.
C6_OperatorImmutable ==
  [][(RefOperator \/ PlainOperator) =>
       /\ res' = res
       /\ Kind(res'.value) = req.kind
       /\ In(res'.value) = In(res.value)
       /\ Out(res'.value) = Out(res.value)]_vars

C6_Witness ==
  /\ RefOperator
  /\ calls["g1"].pc = "inF"
  /\ calls["g2"].pc = "returned" /\ ~IsNilIface(calls["g2"].ret[2])
  /\ Kind(res.value) = req.kind
  /\ In(res.value) = req.f.params[3]

\* C7: NewOperator never fails; its Operator reports the kind, in and out it
\* was given, and its Operate enters f once with exactly (ctx, field,
\* object), a nil object staying nil, and returns f's two results unchanged.
C7_NewOperatorPassThrough ==
  req.fn = "NewOperator" =>
    /\ res # Pending =>
          /\ res.status = "ok"
          /\ Kind(res.value) = req.kind
          /\ In(res.value) = req.in
          /\ Out(res.value) = req.out
    /\ \A c \in Callers :
          calls[c].pc # "idle" =>
            /\ calls[c].pc # "panicked"
            /\ calls[c].n = 1
            /\ calls[c].callee = req.f
            /\ calls[c].fargs = <<calls[c].ctx, StringValue(calls[c].field),
                                  calls[c].object>>
            /\ calls[c].pc = "returned" => calls[c].ret = calls[c].fret

C7_Witness ==
  /\ req.fn = "NewOperator" /\ req.in = "string" /\ req.out = "string"
  /\ \E c \in Callers :
       /\ calls[c].pc = "returned"
       /\ IsNilIface(calls[c].object)
       /\ calls[c].fargs[3] = NilIface
       /\ calls[c].ret = <<GoValue("int", <<"42">>), ErrParse>>

\* C8: SimpleDescriptor(method, path, f) returns a Descriptor with the given
\* path and exactly one Definition, with the given method and function and
\* Consumes = Produces = [MIMEAll]; SimpleRPCDescriptor(path, f) returns an
\* RPCDescriptor with the given path and exactly one RPCAction, with the
\* given function and Consumes = Produces = [MIMEAll].
C8_SimpleDescriptors ==
  res.status = "ok" =>
    /\ req.fn = "SimpleDescriptor" =>
          /\ res.value.Path = req.path
          /\ Len(res.value.Definitions) = 1
          /\ res.value.Definitions[1].Method = req.method
          /\ res.value.Definitions[1].Function = req.f
          /\ res.value.Definitions[1].Consumes = <<"*/*">>
          /\ res.value.Definitions[1].Produces = <<"*/*">>
    /\ req.fn = "SimpleRPCDescriptor" =>
          /\ res.value.Path = req.path
          /\ Len(res.value.Actions) = 1
          /\ res.value.Actions[1].Function = req.f
          /\ res.value.Actions[1].Consumes = <<"*/*">>
          /\ res.value.Actions[1].Produces = <<"*/*">>

C8_Witness ==
  /\ req.fn = "SimpleRPCDescriptor" /\ res.status = "ok"
  /\ res.value.Path = "/users"
  /\ res.value.Actions[1].Function = NamedFunc("createUser")

\* C9: DataErrorResults(d) returns exactly two Results: first Destination
\* Data with Description d, then Destination Error with an empty
\* Description; neither has Operators.
C9_DataErrorResults ==
  (req.fn = "DataErrorResults" /\ res.status = "ok") =>
    /\ Len(res.value) = 2
    /\ res.value[1].Destination = "Data"
    /\ res.value[1].Description = req.description
    /\ res.value[1].Operators = <<>>
    /\ res.value[2].Destination = "Error"
    /\ res.value[2].Description = ""
    /\ res.value[2].Operators = <<>>

C9_Witness ==
  /\ req.fn = "DataErrorResults" /\ res.status = "ok"
  /\ req.description = "the user"
  /\ res.value[1].Description = "the user"

\* C10: on an operator built by OperatorFunc, Operate with a non-nil
\* context, any field and an object that is nil or of the type In() reports
\* never panics before the wrapped function is entered, variadic functions
\* included.
C10_NoShapeFailureInOperate ==
  \A c \in Callers :
    (/\ RefOperator
     /\ calls[c].pc # "idle"
     /\ ~IsNilIface(calls[c].ctx)
     /\ (IsNilIface(calls[c].object)
           \/ AssignableTo(calls[c].object.t, In(res.value))))
    => calls[c].pc # "panicked"

====
